---- MODULE Spec2Model ----
(***************************************************************************)
(* Roommate chore preferences form (chore-pref).                           *)
(*                                                                         *)
(* Two variants of the same React component are modelled side by side:     *)
(*   "app"  : src/App.js   - the name is resolved by a 500ms debounce      *)
(*            timer, submit looks the name up before inserting;            *)
(*   "page" : app/page.js  - the name is resolved on blur, submit inserts  *)
(*            the roommate without looking it up.                          *)
(* Every await of the code is two steps: the store serves the request      *)
(* (reads or writes the collections), then the continuation of the async   *)
(* function runs on the interaction thread.  handleSubmit works on the     *)
(* values its closure captured when the form was submitted.                *)
(***************************************************************************)
EXTENDS Integers, Sequences, FiniteSets, TLC

(* ---------------------------- bounds ----------------------------------- *)
MaxInflight == 2        \* fetchRoommateData calls that may overlap
MaxEvents == 4          \* user events (keystrokes, blurs, edits, submits) per session
MaxLiveEvents == 3      \* user events per session under LiveSpec

(* ----------------------- program constants ----------------------------- *)
Null == 0               \* useState(null): no resolved identity (falsy)
DefaultScore == 1       \* preferences[chore.id] || 1
MaxScore == 5           \* [1, 2, 3, 4, 5].map(...)
ScoreOptions == 1..MaxScore

(* ---------------------------- inputs ----------------------------------- *)
\* values the name field takes; names are sequences of characters
NameInputs == { <<>>, <<" ">>, <<"a", " ">>, <<"b">> }
Variants == {"app", "page"}
\* the catalog the store holds (the session's chores is [] until it arrives,
\* and stays [] when the read fails)
Catalogs == { {1, 2} }
\* options the user picks in a selector (a subset of ScoreOptions)
ScoreInputs == {1, 5}

VARIABLES
    variant,         \* which source file is running
    roommateName,    \* useState('')
    roommateId,      \* useState(null)
    chores,          \* useState([]) : set of chore ids
    preferences,     \* useState({}) : chore id -> score, sparse
    loading,         \* useState(false)
    debounceRef,     \* pending debounce timer and the name it captured
    choresReq,       \* fetchChores still awaiting
    inflight,        \* running fetchRoommateData calls
    sub,             \* the running handleSubmit, or Idle
    notice,          \* the alert() the last step raised, "none" once dismissed
    dbChores,        \* collection chores (ids)
    dbRoommates,     \* collection roommates : {id, name}
    dbPreferences,   \* collection preferences : {roommate_id, chore_id, preference_score}
    latestName,      \* history: name of the latest settled name field
    prevSubmit,      \* history: previous submit, while nothing else ran since
    events,          \* history: user events so far
    editedUnder,     \* history: the name under which the map shown was edited
    cleared          \* history: identity shown when the name was cleared, until the name settles

vars == << variant, roommateName, roommateId, chores, preferences, loading,
           debounceRef, choresReq, inflight, sub, notice, dbChores,
           dbRoommates, dbPreferences, latestName, prevSubmit,
           events, editedUnder, cleared >>

session == << roommateName, roommateId, preferences >>
store == << dbChores, dbRoommates, dbPreferences >>

(* ------------------------- pure helpers -------------------------------- *)
RECURSIVE TrimStart(_), TrimEnd(_)
TrimStart(s) == IF s # <<>> /\ Head(s) = " " THEN TrimStart(Tail(s)) ELSE s
TrimEnd(s) == IF s # <<>> /\ s[Len(s)] = " " THEN TrimEnd(SubSeq(s, 1, Len(s) - 1)) ELSE s
\* String.prototype.trim
Trim(s) == TrimEnd(TrimStart(s))

EmptyMap == [c \in {} |-> DefaultScore]

\* setPreferences((prev) => ({ ...prev, [choreId]: score }))
Put(m, c, s) == [x \in (DOMAIN m) \cup {c} |-> IF x = c THEN s ELSE m[x]]

\* preferencesData.forEach((pref) => { preferencesMap[pref.chore_id] = pref.preference_score })
PreferencesMap(rows) ==
    [c \in {r.chore_id : r \in rows} |->
        (CHOOSE r \in rows : r.chore_id = c).preference_score]

ScoreOrZero(m, c) == IF c \in DOMAIN m THEN m[c] ELSE 0
\* preferences[chore.id] || 1
ScoreOrDefault(m, c) == IF c \in DOMAIN m /\ m[c] # 0 THEN m[c] ELSE DefaultScore

BuildRowsSkipAbsent(cs, rid, m) ==
    { [roommate_id |-> rid, chore_id |-> c, preference_score |-> m[c]] :
        c \in cs \cap DOMAIN m }
\* chores.map((chore) => ({ roommate_id, chore_id, preference_score }))
BuildRows(cs, rid, m) ==
    { [roommate_id |-> rid, chore_id |-> c, preference_score |-> ScoreOrDefault(m, c)] :
        c \in cs }

SameKey(r, q) == r.roommate_id = q.roommate_id /\ r.chore_id = q.chore_id

UpsertNoConflictTarget(table, rows) == table \cup rows
\* .upsert(preferencesData, { onConflict: 'roommate_id,chore_id' })
Upsert(table, rows) ==
    { r \in table : ~ \E q \in rows : SameKey(r, q) } \cup rows

\* .from('roommates').select().eq('name', name)
RoommatesNamed(name) == { r \in dbRoommates : r.name = name }

\* auto-generated id of an inserted roommate
NextId == IF dbRoommates = {} THEN 1
          ELSE (CHOOSE i \in {r.id : r \in dbRoommates} :
                   \A j \in {r.id : r \in dbRoommates} : j <= i) + 1

\* .from('preferences').select(...).eq('roommate_id', id)
PreferencesOf(id) == { r \in dbPreferences : r.roommate_id = id }

(* ---------------------------- records ---------------------------------- *)
NoTimer == [pending |-> FALSE, name |-> <<>>]
Timer(n) == [pending |-> TRUE, name |-> n]

Idle == [pc |-> "idle", name |-> <<>>, rid0 |-> Null, cur |-> Null,
         prefs |-> EmptyMap, chores |-> {}, rows |-> {}, err |-> FALSE,
         data |-> Null, checked |-> FALSE, disturbed |-> FALSE]

NotEdited == [valid |-> FALSE, name |-> <<>>]
EditedUnder(n) == [valid |-> TRUE, name |-> n]
NoSubmit == [valid |-> FALSE, name |-> <<>>, id |-> Null]

\* one more user event; the catalog request has settled before the first one
UserEvent == ~choresReq /\ events < MaxEvents /\ events' = events + 1

\* another handler changed the session while a submit is running
Disturb(s) == IF s.pc = "idle" THEN s ELSE [s EXCEPT !.disturbed = TRUE]

(* ----------------------------- Init ------------------------------------ *)
\* the store before the session: "a" already has identity 1 and one stored
\* preference, "b" has no identity
InitRoommates == { [id |-> 1, name |-> <<"a">>] }
InitPreferences == { [roommate_id |-> 1, chore_id |-> 1, preference_score |-> 5] }

Init ==
    /\ variant \in Variants
    /\ roommateName = <<>>
    /\ roommateId = Null
    /\ chores = {}
    /\ preferences = EmptyMap
    /\ loading = FALSE
    /\ debounceRef = IF variant = "app" THEN Timer(<<>>) ELSE NoTimer
    /\ choresReq = TRUE
    /\ inflight = {}
    /\ sub = Idle
    /\ notice = "none"
    /\ dbChores \in Catalogs
    /\ dbRoommates = InitRoommates
    /\ dbPreferences = InitPreferences
    /\ latestName = <<>>
    /\ prevSubmit = NoSubmit
    /\ events = 0
    /\ editedUnder = NotEdited
    /\ cleared = Null

(* ------------------------ catalog fetch -------------------------------- *)
\* fetchChores: the catalog arrives, or the read fails and chores stays []
FetchChores ==
    /\ choresReq
    /\ choresReq' = FALSE
    /\ \/ chores' = dbChores
       \/ chores' = chores
    /\ prevSubmit' = NoSubmit
    /\ notice' = "none"
    /\ UNCHANGED << editedUnder, events, variant, roommateName, roommateId, preferences, loading,
                    debounceRef, inflight, sub, store, latestName,
                    cleared >>

(* ------------------------- name field ---------------------------------- *)
SetRoommateNameKeepsTimer(v) ==
    /\ v # roommateName
    /\ UserEvent
    /\ roommateName' = v
    /\ debounceRef' = IF variant = "app" /\ ~debounceRef.pending THEN Timer(v)
                      ELSE debounceRef
    /\ cleared' = IF Trim(v) = <<>> /\ Trim(roommateName) # <<>> /\ roommateId # Null
                  THEN roommateId
                  ELSE cleared
    /\ sub' = Disturb(sub)
    /\ prevSubmit' = NoSubmit
    /\ notice' = "none"
    /\ UNCHANGED << editedUnder, variant, roommateId, chores, preferences, loading,
                    choresReq, inflight, store, latestName >>
\* onChange={(e) => setRoommateName(e.target.value)}; in src/App.js the
\* effect on [roommateName] then clears the timer and sets a new one
SetRoommateName(v) ==
    /\ v # roommateName
    /\ UserEvent
    /\ roommateName' = v
    /\ debounceRef' = IF variant = "app" THEN Timer(v) ELSE debounceRef
    /\ cleared' = IF Trim(v) = <<>> /\ Trim(roommateName) # <<>> /\ roommateId # Null
                  THEN roommateId
                  ELSE cleared
    /\ sub' = Disturb(sub)
    /\ prevSubmit' = NoSubmit
    /\ notice' = "none"
    /\ UNCHANGED << editedUnder, variant, roommateId, chores, preferences, loading,
                    choresReq, inflight, store, latestName >>

\* fetchRoommateData(name) up to its first await: the roommate lookup is sent
StartFetch(name) ==
    /\ Cardinality(inflight) < MaxInflight
    /\ inflight' = inflight \cup
          { [name |-> IF variant = "app" THEN Trim(name) ELSE name,
             pc |-> "lookup", err |-> "none", id |-> Null, rows |-> {}] }
    /\ latestName' = name
    /\ cleared' = Null
    /\ UNCHANGED << roommateId, preferences, editedUnder, sub >>

\* the else branch of the settle handlers: setRoommateId(null); setPreferences({})
ResetIdentity ==
    /\ roommateId' = Null
    /\ preferences' = EmptyMap
    /\ editedUnder' = NotEdited
    /\ latestName' = <<>>
    /\ sub' = Disturb(sub)
    /\ cleared' = Null
    /\ UNCHANGED inflight

SettleAlwaysFetches(n) == StartFetch(Trim(n))
\* the name settled with value n
Settle(n) ==
    IF Trim(n) # <<>> THEN StartFetch(Trim(n)) ELSE ResetIdentity

\* src/App.js: the debounce timer fires with the name its closure captured
TimerFire ==
    /\ variant = "app"
    /\ debounceRef.pending
    /\ debounceRef' = NoTimer
    /\ Settle(debounceRef.name)
    /\ prevSubmit' = NoSubmit
    /\ notice' = "none"
    /\ UNCHANGED << events, variant, roommateName, chores, loading, choresReq, store >>

\* app/page.js: handleRoommateNameBlur
HandleRoommateNameBlur ==
    /\ variant = "page"
    /\ UserEvent
    /\ Settle(roommateName)
    /\ prevSubmit' = NoSubmit
    /\ notice' = "none"
    /\ UNCHANGED << variant, roommateName, chores, loading, debounceRef,
                    choresReq, store >>

(* --------------------- fetchRoommateData ------------------------------- *)
\* the store answers .from('roommates').select('*').eq('name', name).single()
ServeLookup(r) ==
    /\ r \in inflight
    /\ r.pc = "lookup"
    /\ \E res \in { [err |-> "backend", id |-> Null] } \cup
                  ( IF Cardinality(RoommatesNamed(r.name)) = 1
                    THEN { [err |-> "none", id |-> q.id] : q \in RoommatesNamed(r.name) }
                    ELSE { [err |-> "PGRST116", id |-> Null] } ) :
          inflight' = (inflight \ {r}) \cup
              { [r EXCEPT !.pc = "lookupResp", !.err = res.err, !.id = res.id] }
    /\ prevSubmit' = NoSubmit
    /\ notice' = "none"
    /\ UNCHANGED << editedUnder, events, variant, roommateName, roommateId, chores, preferences,
                    loading, debounceRef, choresReq, sub, store,
                    latestName, cleared >>

NotFoundKeepsSession(r) ==
    /\ inflight' = inflight \ {r}
    /\ UNCHANGED << roommateId, preferences, editedUnder, sub >>
\* no roommate of that name: setRoommateId(null); setPreferences({})
NotFound(r) ==
    /\ roommateId' = Null
    /\ preferences' = EmptyMap
    /\ editedUnder' = NotEdited
    /\ inflight' = inflight \ {r}
    /\ sub' = Disturb(sub)

\* continuation of fetchRoommateData after the roommate lookup
ApplyLookup(r) ==
    /\ r \in inflight
    /\ r.pc = "lookupResp"
    /\ IF r.err = "none"
       THEN \* if (roommateData) { setRoommateId(roommateData.id); fetch preferences
            /\ roommateId' = r.id
            /\ inflight' = (inflight \ {r}) \cup {[r EXCEPT !.pc = "prefs"]}
            /\ sub' = Disturb(sub)
            /\ UNCHANGED << preferences, editedUnder >>
       ELSE IF variant = "app" /\ r.err # "PGRST116"
       THEN \* src/App.js: console.error; return
            /\ inflight' = inflight \ {r}
            /\ UNCHANGED << roommateId, preferences, editedUnder, sub >>
       ELSE \* not found (app/page.js: any lookup without data)
            NotFound(r)
    /\ prevSubmit' = NoSubmit
    /\ notice' = "none"
    /\ UNCHANGED << events, variant, roommateName, chores, loading, debounceRef,
                    choresReq, store, latestName, cleared >>

\* the store answers .from('preferences').select(...).eq('roommate_id', id)
ServePrefs(r) ==
    /\ r \in inflight
    /\ r.pc = "prefs"
    /\ \E res \in { [err |-> "backend", rows |-> {}],
                    [err |-> "none", rows |-> PreferencesOf(r.id)] } :
          inflight' = (inflight \ {r}) \cup
              { [r EXCEPT !.pc = "prefsResp", !.err = res.err, !.rows = res.rows] }
    /\ prevSubmit' = NoSubmit
    /\ notice' = "none"
    /\ UNCHANGED << editedUnder, events, variant, roommateName, roommateId, chores, preferences,
                    loading, debounceRef, choresReq, sub, store,
                    latestName, cleared >>

\* continuation of fetchRoommateData after the preferences fetch
ApplyPrefs(r) ==
    /\ r \in inflight
    /\ r.pc = "prefsResp"
    /\ inflight' = inflight \ {r}
    /\ IF r.err = "none"
       THEN /\ preferences' = PreferencesMap(r.rows)
            /\ editedUnder' = NotEdited
            /\ sub' = Disturb(sub)
       ELSE UNCHANGED << preferences, editedUnder, sub >>
    /\ prevSubmit' = NoSubmit
    /\ notice' = "none"
    /\ UNCHANGED << events, variant, roommateName, roommateId, chores, loading,
                    debounceRef, choresReq, store, latestName, cleared >>

(* ----------------------- preference edit ------------------------------- *)
\* handlePreferenceChange(chore.id, parseInt(e.target.value)); the selector
\* shows preferences[chore.id] || 1 and fires onChange on another option
HandlePreferenceChange(c, s) ==
    /\ c \in chores
    /\ UserEvent
    /\ s # ScoreOrDefault(preferences, c)
    /\ preferences' = Put(preferences, c, s)
    /\ editedUnder' = EditedUnder(Trim(roommateName))
    /\ sub' = Disturb(sub)
    /\ prevSubmit' = NoSubmit
    /\ notice' = "none"
    /\ UNCHANGED << variant, roommateName, roommateId, chores, loading,
                    debounceRef, choresReq, inflight, store, latestName,
                    cleared >>

(* --------------------------- handleSubmit ------------------------------ *)
\* the name handleSubmit inserts: src/App.js inserts trimmedName,
\* app/page.js inserts roommateName as typed
InsertName(s) == IF variant = "app" THEN Trim(s.name) ELSE s.name

\* "Prepare preferences data" and send the upsert
SendUpsert(s, rid) ==
    [s EXCEPT !.pc = "upsert", !.cur = rid, !.err = FALSE,
              !.rows = BuildRows(s.chores, rid, s.prefs)]

FailWithoutFinally ==
    /\ notice' = "error"
    /\ loading' = loading
    /\ sub' = Idle
    /\ prevSubmit' = NoSubmit
\* catch (error) { alert(...) } finally { setLoading(false) }
Fail ==
    /\ notice' = "error"
    /\ loading' = FALSE
    /\ sub' = Idle
    /\ prevSubmit' = NoSubmit

SubmitEnabledIgnoringLoading == Trim(roommateName) # <<>>
\* the submit button is enabled: disabled={loading || roommateName.trim() === ''}
SubmitEnabled == ~loading /\ Trim(roommateName) # <<>>

\* handleSubmit up to its first await, on the state of the current render
HandleSubmit ==
    /\ SubmitEnabled
    /\ UserEvent
    /\ loading' = TRUE
    /\ LET s == [Idle EXCEPT !.name = roommateName, !.rid0 = roommateId,
                             !.cur = roommateId, !.prefs = preferences,
                             !.chores = chores]
       IN  sub' = IF roommateId # Null THEN SendUpsert(s, roommateId)
                  ELSE IF variant = "app" THEN [s EXCEPT !.pc = "lookup"]
                  ELSE [s EXCEPT !.pc = "insert"]
    /\ notice' = "none"
    /\ UNCHANGED << editedUnder, variant, session, chores, debounceRef, choresReq, inflight,
                    store, latestName, prevSubmit, cleared >>

\* src/App.js: the store answers .select('id').eq('name', trimmedName).maybeSingle()
ServeSubmitLookup ==
    /\ sub.pc = "lookup"
    /\ \E res \in { [err |-> TRUE, data |-> Null] } \cup
                  ( IF Cardinality(RoommatesNamed(Trim(sub.name))) > 1
                    THEN {}
                    ELSE IF RoommatesNamed(Trim(sub.name)) = {}
                    THEN { [err |-> FALSE, data |-> Null] }
                    ELSE { [err |-> FALSE, data |-> q.id] :
                              q \in RoommatesNamed(Trim(sub.name)) } ) :
          sub' = [sub EXCEPT !.pc = "lookupResp", !.err = res.err, !.data = res.data]
    /\ notice' = "none"
    /\ UNCHANGED << editedUnder, events, variant, session, chores, loading, debounceRef, choresReq,
                    inflight, store, latestName, prevSubmit, cleared >>

\* src/App.js: continuation after the existence check
SubmitAfterLookup ==
    /\ sub.pc = "lookupResp"
    /\ IF sub.err
       THEN Fail /\ UNCHANGED roommateId
       ELSE IF sub.data # Null
       THEN \* roommate exists, use existing ID
            /\ roommateId' = sub.data
            /\ sub' = SendUpsert(sub, sub.data)
            /\ notice' = "none"
            /\ UNCHANGED << loading, prevSubmit >>
       ELSE \* insert new roommate
            /\ sub' = [sub EXCEPT !.pc = "insert", !.checked = TRUE]
            /\ notice' = "none"
            /\ UNCHANGED << roommateId, loading, prevSubmit >>
    /\ UNCHANGED << editedUnder, events, variant, roommateName, chores, preferences, debounceRef,
                    choresReq, inflight, store, latestName, cleared >>

\* the store answers .from('roommates').insert([{ name }]).select().single();
\* roommates.name is unique, so a second row of a name is rejected
ServeInsert ==
    /\ sub.pc = "insert"
    /\ \/ /\ sub' = [sub EXCEPT !.pc = "insertResp", !.err = TRUE]
          /\ UNCHANGED dbRoommates
       \/ /\ RoommatesNamed(InsertName(sub)) = {}
          /\ dbRoommates' = dbRoommates \cup {[id |-> NextId, name |-> InsertName(sub)]}
          /\ sub' = [sub EXCEPT !.pc = "insertResp", !.err = FALSE, !.data = NextId]
    /\ notice' = "none"
    /\ UNCHANGED << editedUnder, events, variant, session, chores, loading, debounceRef, choresReq,
                    inflight, dbChores, dbPreferences, latestName,
                    prevSubmit, cleared >>

SubmitAfterInsertIgnoresError ==
    /\ sub.pc = "insertResp"
    /\ roommateId' = sub.data
    /\ sub' = SendUpsert(sub, sub.data)
    /\ notice' = "none"
    /\ UNCHANGED << loading, prevSubmit >>
    /\ UNCHANGED << editedUnder, events, variant, roommateName, chores, preferences, debounceRef,
                    choresReq, inflight, store, latestName, cleared >>
\* continuation after the insert
SubmitAfterInsert ==
    /\ sub.pc = "insertResp"
    /\ IF sub.err
       THEN Fail /\ UNCHANGED roommateId
       ELSE /\ roommateId' = sub.data
            /\ sub' = SendUpsert(sub, sub.data)
            /\ notice' = "none"
            /\ UNCHANGED << loading, prevSubmit >>
    /\ UNCHANGED << editedUnder, events, variant, roommateName, chores, preferences, debounceRef,
                    choresReq, inflight, store, latestName, cleared >>

\* the store answers .from('preferences').upsert(preferencesData, ...)
ServeUpsert ==
    /\ sub.pc = "upsert"
    /\ \/ /\ sub' = [sub EXCEPT !.pc = "upsertResp", !.err = TRUE]
          /\ UNCHANGED dbPreferences
       \/ /\ dbPreferences' = Upsert(dbPreferences, sub.rows)
          /\ sub' = [sub EXCEPT !.pc = "upsertResp", !.err = FALSE]
    /\ notice' = "none"
    /\ UNCHANGED << editedUnder, events, variant, session, chores, loading, debounceRef, choresReq,
                    inflight, dbChores, dbRoommates, latestName,
                    prevSubmit, cleared >>

\* continuation after the upsert: alert and finally
SubmitAfterUpsert ==
    /\ sub.pc = "upsertResp"
    /\ IF sub.err
       THEN Fail
       ELSE /\ notice' = "saved"
            /\ loading' = FALSE
            /\ sub' = Idle
            /\ prevSubmit' = [valid |-> TRUE, name |-> Trim(sub.name), id |-> sub.cur]
    /\ UNCHANGED << editedUnder, events, variant, session, chores, debounceRef, choresReq, inflight,
                    store, latestName, cleared >>

(* ------------------------- specification ------------------------------- *)
Next ==
    \/ FetchChores
    \/ \E v \in NameInputs : SetRoommateName(v)
    \/ TimerFire
    \/ HandleRoommateNameBlur
    \/ \E r \in inflight : ServeLookup(r)
    \/ \E r \in inflight : ApplyLookup(r)
    \/ \E r \in inflight : ServePrefs(r)
    \/ \E r \in inflight : ApplyPrefs(r)
    \/ \E c \in chores, s \in ScoreInputs : HandlePreferenceChange(c, s)
    \/ HandleSubmit
    \/ ServeSubmitLookup
    \/ SubmitAfterLookup
    \/ ServeInsert
    \/ SubmitAfterInsert
    \/ ServeUpsert
    \/ SubmitAfterUpsert

Spec == Init /\ [][Next]_vars

\* the steps of a running handleSubmit: each awaited request is answered
\* (with data or with an error) and the continuation after the await runs
SubmitStep ==
    \/ ServeSubmitLookup
    \/ SubmitAfterLookup
    \/ ServeInsert
    \/ SubmitAfterInsert
    \/ ServeUpsert
    \/ SubmitAfterUpsert

\* the steps of the running fetchRoommateData calls
ResolutionStep ==
    \E r \in inflight :
        ServeLookup(r) \/ ApplyLookup(r) \/ ServePrefs(r) \/ ApplyPrefs(r)

\* the same steps as Next, in sessions of at most MaxLiveEvents user events
LiveNext ==
    \/ FetchChores
    \/ \E v \in NameInputs : events < MaxLiveEvents /\ SetRoommateName(v)
    \/ TimerFire
    \/ events < MaxLiveEvents /\ HandleRoommateNameBlur
    \/ \E r \in inflight : ServeLookup(r)
    \/ \E r \in inflight : ApplyLookup(r)
    \/ \E r \in inflight : ServePrefs(r)
    \/ \E r \in inflight : ApplyPrefs(r)
    \/ \E c \in chores, s \in ScoreInputs :
          events < MaxLiveEvents /\ HandlePreferenceChange(c, s)
    \/ events < MaxLiveEvents /\ HandleSubmit
    \/ SubmitStep

\* every awaited request settles, every continuation is run by the event
\* loop, and a timer that stays set fires; user events are under no obligation
LiveSpec ==
    /\ Init
    /\ [][LiveNext]_vars
    /\ WF_vars(TimerFire)
    /\ WF_vars(ResolutionStep)
    /\ WF_vars(SubmitStep)

TypeOK ==
    /\ variant \in Variants
    /\ roommateName \in NameInputs
    /\ roommateId \in Nat
    /\ chores \subseteq dbChores
    /\ loading \in BOOLEAN
    /\ Cardinality(inflight) <= MaxInflight

(* ------------------------------ claims --------------------------------- *)
InUpsert == sub.pc \in {"upsert", "upsertResp"}
Saved == sub.pc = "upsertResp" /\ ~sub.err

\* the stored preference map of the identity named n, empty when there is none
ShownFor(n) ==
    IF RoommatesNamed(n) = {} THEN EmptyMap
    ELSE PreferencesMap(PreferencesOf((CHOOSE q \in RoommatesNamed(n) : TRUE).id))

\* C1: a resolution result is applied to the session only when it belongs to
\* the latest settled name; results of superseded resolutions are discarded.
C1_StaleResultDiscarded ==
    [][ \A r \in inflight :
            ( /\ r.pc \in {"lookupResp", "prefsResp"}
              /\ r \notin inflight'
              /\ << roommateId', preferences' >> # << roommateId, preferences >> )
            => r.name = latestName ]_vars

\* C2: the identity a submit writes preference rows under is the identity
\* whose stored name is the trimmed name field at the moment of submit.
C2_SubmitUnderOwnName ==
    InUpsert => \E q \in dbRoommates : q.id = sub.cur /\ q.name = Trim(sub.name)

\* C3: a successful submit sends exactly one row per chore of the catalog it
\* was given and each is persisted for the identity, with the local map's
\* score when the chore is in the map and 1 when it is absent.
C3_OneRowPerChore ==
    Saved =>
        /\ Cardinality(sub.rows) = Cardinality(sub.chores)
        /\ \A c \in sub.chores :
              LET want == [roommate_id |-> sub.cur, chore_id |-> c,
                           preference_score |->
                               IF c \in DOMAIN sub.prefs THEN sub.prefs[c] ELSE 1]
              IN  /\ { r \in sub.rows : r.chore_id = c } = {want}
                  /\ { r \in dbPreferences :
                         r.roommate_id = sub.cur /\ r.chore_id = c } = {want}

\* a submit was saved with one chore scored above 1 in the local map and
\* another chore absent from it
C3_Witness ==
    /\ Saved
    /\ \E c \in sub.chores : c \notin DOMAIN sub.prefs
    /\ \E c \in sub.chores : c \in DOMAIN sub.prefs /\ sub.prefs[c] > 1

C5_GetOrCreateIdempotent ==
    (InUpsert /\ prevSubmit.valid /\ prevSubmit.name = Trim(sub.name)) =>
        /\ sub.cur = prevSubmit.id
        /\ Cardinality(RoommatesNamed(Trim(sub.name))) = 1

\* C6: a submit issues the roommate insert only after its own lookup by the
\* trimmed name returned no row.
C6_RecheckBeforeInsert ==
    sub.pc \in {"insert", "insertResp"} => sub.checked

\* C7: when the resolution of a name that has an identity finishes, whatever
\* the outcome of its preferences fetch, the preference map shown is the
\* stored map of that identity or empty, or was edited under that very
\* name: nothing shown or edited under another name is left in it.
C7_NoLeakAcrossIdentities ==
    [][ \A r \in inflight :
            (r.pc = "prefsResp" /\ inflight' = inflight \ {r}) =>
                \/ preferences' \in {ShownFor(r.name), EmptyMap}
                \/ editedUnder'.valid /\ editedUnder'.name = r.name ]_vars

\* C8: no submit begins while roommateId or the preference map still hold
\* the values of a name that was cleared from the name field.
C8_ClearedBeforeSubmit ==
    [][ (sub.pc = "idle" /\ sub'.pc # "idle" /\ cleared # Null) =>
            /\ roommateId # cleared
            /\ \/ preferences = EmptyMap
               \/ preferences # PreferencesMap(PreferencesOf(cleared)) ]_vars

\* C9: a submit that ends in a write failure leaves name, roommateId and the
\* preference map as they were when it started.
C9_FailedSubmitRestoresSession ==
    [][ (sub.pc # "idle" /\ sub'.pc = "idle" /\ sub.err /\ ~sub.disturbed) =>
            << roommateName', roommateId', preferences' >>
                = << sub.name, sub.rid0, sub.prefs >> ]_vars

\* C10: a backend error of the roommate lookup leaves roommateId and the
\* preference map unchanged; a not-found result clears both.
C10_LookupOutcomesDistinguished ==
    [][ \A r \in inflight :
            (r.pc = "lookupResp" /\ inflight' = inflight \ {r}) =>
                /\ r.err = "backend" => UNCHANGED << roommateId, preferences >>
                /\ r.err = "PGRST116" =>
                      roommateId' = Null /\ preferences' = EmptyMap ]_vars

\* C11: when the roommate lookup of a resolution answers that no roommate has
\* the name, the resolution ends with roommateId = null and an empty
\* preference map and raises no alert, whatever the session held before.
C11_NotFoundClearsSilently ==
    [][ \A r \in inflight :
            (r.pc = "lookupResp" /\ r.err = "PGRST116" /\ r \notin inflight') =>
                /\ roommateId' = Null
                /\ preferences' = EmptyMap
                /\ notice' = "none"
                /\ inflight' = inflight \ {r} ]_vars

\* a not-found answer has arrived for a session that shows an identity and
\* a non-empty preference map
C11_Witness ==
    /\ roommateId # Null
    /\ preferences # EmptyMap
    /\ \E r \in inflight : r.pc = "lookupResp" /\ r.err = "PGRST116"

\* C12: at most one submit is in flight: while a submit's remote operations
\* are pending, loading is true and the submit control is disabled, and no
\* handleSubmit starts before the running one has finished.
C12_OneSubmitInFlight ==
    [][ /\ (sub.pc # "idle") => (loading /\ ~SubmitEnabled)
        /\ HandleSubmit => (sub.pc = "idle" /\ sub'.pc # "idle") ]_vars

\* a submit is pending while the name field is non-empty and the user could
\* still act on the form
C12_Witness ==
    /\ sub.pc \in {"lookup", "insert", "upsert"}
    /\ loading
    /\ Trim(roommateName) # <<>>
    /\ events < MaxEvents

\* C13: every submit that starts eventually finishes with loading = false,
\* whether it succeeds or its lookup, insert or upsert fails; its last step
\* raises exactly one notice, the confirmation on success and the error on
\* failure, and no other step of a submit raises one.
C13_SubmitFinishes ==
    /\ (sub.pc # "idle") ~> (sub.pc = "idle" /\ ~loading)
    /\ [][ /\ (sub.pc # "idle" /\ sub'.pc = "idle") =>
                 (~loading' /\ notice' = IF sub.err THEN "error" ELSE "saved")
           /\ (sub'.pc # "idle") => (notice' = "none") ]_vars

\* a submit for a name without identity has just ended in a failure of its
\* lookup or of its insert: the error notice is up and loading is false
C13_Witness ==
    /\ notice = "error"
    /\ sub.pc = "idle"
    /\ ~loading
    /\ roommateId = Null
    /\ inflight = {}

\* C14: when the name settles (the debounce timer fires, or the field loses
\* focus) with an empty trimmed value, the session goes to roommateId = null
\* and an empty preference map and no request is sent; no roommate lookup
\* ever carries an empty name.
C14_EmptyNameNoLookup ==
    [][ /\ ( \/ TimerFire /\ Trim(debounceRef.name) = <<>>
             \/ HandleRoommateNameBlur /\ Trim(roommateName) = <<>> ) =>
                (roommateId' = Null /\ preferences' = EmptyMap /\ inflight' = inflight)
        /\ \A r \in inflight' : Trim(r.name) # <<>> ]_vars

\* the debounce timer of a blank name is about to fire on a session that
\* shows an identity and its stored map
C14_Witness ==
    /\ debounceRef.pending
    /\ debounceRef.name = <<" ">>
    /\ roommateId # Null
    /\ preferences # EmptyMap
    /\ inflight = {}

\* C15: a submit runs only for a name whose trimmed value is non-empty, and
\* no roommates row created by the program has an empty name or a name with
\* leading or trailing whitespace.
C15_StoredNamesTrimmed ==
    /\ (sub.pc # "idle") => (Trim(sub.name) # <<>>)
    /\ \A q \in dbRoommates \ InitRoommates :
           q.name # <<>> /\ q.name = Trim(q.name)

\* C16: a submit stops at its first failed remote operation: once its
\* lookup, insert or upsert has failed, the submit issues nothing more (no
\* upsert after a failed lookup or insert, no retry), the store is not
\* written, and the step that ends the submit raises the error notice.
C16_StopsAtFirstFailure ==
    [][ sub.err =>
            /\ sub.pc \in {"lookupResp", "insertResp", "upsertResp"}
            /\ UNCHANGED store
            /\ sub'.pc \in {sub.pc, "idle"}
            /\ (sub'.pc = "idle") => (notice' = "error" /\ sub' = Idle) ]_vars

\* the insert of a new roommate has failed and the submit has not yet
\* handled the failure
C16_Witness ==
    /\ sub.pc = "insertResp"
    /\ sub.err
    /\ sub.rows = {}
    /\ loading

\* C17: in src/App.js the timer that is pending is the one started by the
\* latest change of the name field (earlier ones were cancelled); a
\* resolution is started only by that timer firing, for the trimmed value
\* the field holds at that moment; and a name that stays unchanged
\* eventually has its timer fire and its resolution started.
C17_Debounce ==
    /\ [][ variant = "app" =>
              /\ debounceRef.pending => (debounceRef.name = roommateName)
              /\ \A r \in inflight' \ inflight :
                    (r.pc = "lookup") =>
                        /\ debounceRef.pending /\ ~debounceRef'.pending
                        /\ r.name = Trim(roommateName)
                        /\ roommateName' = roommateName ]_vars
    /\ \A v \in { n \in NameInputs : Trim(n) # <<>> } :
          (variant = "app" /\ debounceRef.pending /\ roommateName = v)
              ~> ( \/ roommateName # v
                   \/ ~debounceRef.pending /\ latestName = Trim(v) )

\* after the name was changed more than once, the timer has fired and the
\* lookup of the trimmed name "a" is in flight while the field holds "a "
C17_Witness ==
    /\ variant = "app"
    /\ events >= 2
    /\ roommateName = <<"a", " ">>
    /\ ~debounceRef.pending
    /\ \E r \in inflight : r.pc = "lookup" /\ r.name = <<"a">>
    /\ ~loading
    /\ preferences = EmptyMap

\* C18: every row a submit sends has a preference_score in 1..5, equal to
\* the value its selector displayed when the form was submitted (the map's
\* score, or 1 for a chore absent from the map); so has every stored row and
\* every score of the map shown.
C18_ScoresInRange ==
    /\ \A r \in sub.rows :
          /\ r.preference_score \in ScoreOptions
          /\ r.preference_score =
                IF r.chore_id \in DOMAIN sub.prefs THEN sub.prefs[r.chore_id]
                ELSE DefaultScore
    /\ \A r \in dbPreferences : r.preference_score \in ScoreOptions
    /\ \A c \in DOMAIN preferences : preferences[c] \in ScoreOptions

\* the submit of a resolved identity sends the highest score for one chore
\* and the default for a chore that is absent from the map
C18_Witness ==
    /\ sub.pc = "upsert"
    /\ sub.rid0 # Null
    /\ \E r \in sub.rows : r.preference_score = MaxScore
    /\ \E r \in sub.rows :
          r.chore_id \notin DOMAIN sub.prefs /\ r.preference_score = DefaultScore

\* what fetchRoommateData ends with for the field value n when no request
\* fails: the id of the roommate named Trim(n), and the map of its stored rows
ResolvedId(n) ==
    IF Cardinality(RoommatesNamed(Trim(n))) = 1
    THEN (CHOOSE q \in RoommatesNamed(Trim(n)) : TRUE).id
    ELSE Null
ResolvedMap(n) ==
    IF ResolvedId(n) = Null THEN EmptyMap
    ELSE PreferencesMap(PreferencesOf(ResolvedId(n)))

\* C19: once a submit with field value n and map P has been saved, a
\* resolution of n that follows with no failure yields the identity the
\* submit wrote under, and a map that gives every catalog chore the saved
\* score (P's value, or 1).
C19_SaveResolveRoundTrip ==
    Saved =>
        /\ ResolvedId(sub.name) = sub.cur
        /\ \A c \in sub.chores :
              /\ c \in DOMAIN ResolvedMap(sub.name)
              /\ ResolvedMap(sub.name)[c] = ScoreOrDefault(sub.prefs, c)

\* C20: when a submit for the name in the field has obtained its identity
\* (it is sending its rows, or has just been saved), the result of a lookup
\* of that name that was answered before the identity was inserted does
\* not undo it: roommateId and the preference map stay as they are.
C20_SubmitNotUndone ==
    [][ \A r \in inflight :
            ( /\ r.pc = "lookupResp" /\ r.err = "PGRST116"
              /\ r \notin inflight'
              /\ r.name = Trim(roommateName)
              /\ \/ /\ prevSubmit.valid
                    /\ prevSubmit.name = r.name
                    /\ roommateId = prevSubmit.id
                 \/ /\ InUpsert
                    /\ Trim(sub.name) = r.name
                    /\ sub.rid0 = Null
                    /\ roommateId = sub.cur )
            => UNCHANGED << roommateId, preferences >> ]_vars

====
